---- MODULE Spec2Model ----
(***************************************************************************)
(* A model of the Sapling bundle verifier:                                 *)
(*   - multipack.rs : bytes_to_bits_le, compute_multipacking               *)
(*   - affine.rs    : the four BLS12-381 point decoders                    *)
(*   - proof.rs     : read_proof                                           *)
(*   - lib.rs       : accept_sapling and its steps                         *)
(*                                                                         *)
(* Multipacking is modelled at full scale: the BLS12-381 scalar field Fr   *)
(* (255-bit modulus, CAPACITY 254) is represented by 16 little-endian      *)
(* 16-bit limbs.  The curves are scaled down (their arithmetic lives in    *)
(* external crates): BLS12-381 becomes y^2 = x^3 + 4 over F_19 and its     *)
(* quadratic extension, JubJub becomes the cyclic group of order 8 * 5.    *)
(***************************************************************************)
EXTENDS Integers, Sequences, FiniteSets, TLC

VARIABLES
    \* ---- multipack (multipack.rs)
    ppc,        \* "bytes" | "bits" | "packed" | "idle"
    pBytes,     \* the byte string handed to bytes_to_bits_le
    pBits,      \* its bits
    pScalars,   \* compute_multipacking(pBits)
    \* ---- point decoding (affine.rs)
    cpc,        \* "g1u" | "g2u" | "g1c" | "g2c" | "done" | "idle"
    cInput,     \* the byte string handed to the decoders
    cOut,       \* the decoders' results so far
    sqrtGreater, \* which of the two roots the field's sqrt() hands back
    \* ---- the acceptor (lib.rs)
    apc,        \* "spends" | "outputs" | "final" | "done" | "idle"
    sighash,    \* the transaction's sighash
    sapling,    \* the bundle: balancing_value, spends, outputs, binding_sig
    idx,        \* the position of the running loop in its sequence
    total,      \* the value commitment accumulator of accept_sapling
    result,     \* "pending" | "Ok" | "Err" | "Panic"
    log         \* the steps taken so far: <<"spend", i>>, <<"output", i>>, <<"final">>

packVars == <<ppc, pBytes, pBits, pScalars>>

codecVars == <<cpc, cInput, cOut>>

acceptVars == <<apc, sighash, sapling, idx, total, result, log>>

vars == <<ppc, pBytes, pBits, pScalars, cpc, cInput, cOut, sqrtGreater,
          apc, sighash, sapling, idx, total, result, log>>

\* The parts of the state a specification leaves alone.
PackIdle == ppc = "idle" /\ pBytes = <<>> /\ pBits = <<>> /\ pScalars = <<>>
CodecIdle == cpc = "idle" /\ cInput = <<>> /\ cOut = <<>>
AcceptIdle ==
    /\ apc = "idle" /\ sighash = 0 /\ sapling = <<>> /\ idx = 0
    /\ total = 0 /\ result = "pending" /\ log = <<>>

----------------------------------------------------------------------------
(* Bounds of the multipack inputs. *)
MaxPackBytes == 65
MaxSeed == 4

----------------------------------------------------------------------------
(* Fr, the BLS12-381 scalar field, as 16 little-endian limbs of 16 bits. *)

LimbBase == 2^16
NumLimbs == 16

\* r = 0x73eda753299d7d483339d80809a1d80553bda402fffe5bfeffffffff00000001
FrModulus ==
    << 1, 0, 65535, 65535, 23550, 65534, 41986, 21437,
       55301, 2465, 55304, 13113, 32072, 10653, 42835, 29677 >>

\* <E::ScalarField as PrimeField>::Params::CAPACITY = MODULUS_BITS - 1
CAPACITY == 254

\* the nullifier of a spend description is [u8; 32]
NullifierLen == 32

FrZero == [i \in 1..NumLimbs |-> 0]
FrOne == [i \in 1..NumLimbs |-> IF i = 1 THEN 1 ELSE 0]

RECURSIVE AddLimbs(_, _, _, _)
AddLimbs(a, b, i, carry) ==
    IF i > NumLimbs THEN <<>>
    ELSE LET s == a[i] + b[i] + carry
         IN  <<s % LimbBase>> \o AddLimbs(a, b, i + 1, s \div LimbBase)

RECURSIVE SubLimbs(_, _, _, _)
SubLimbs(a, b, i, borrow) ==
    IF i > NumLimbs THEN <<>>
    ELSE LET d == a[i] - b[i] - borrow
         IN  <<d % LimbBase>> \o SubLimbs(a, b, i + 1, IF d < 0 THEN 1 ELSE 0)

\* a >= b, comparing from the most significant limb down
RECURSIVE GeqLimbs(_, _, _)
GeqLimbs(a, b, i) ==
    IF i = 0 THEN TRUE
    ELSE IF a[i] # b[i] THEN a[i] > b[i]
    ELSE GeqLimbs(a, b, i - 1)

\* Field addition: add, then one conditional subtraction of the modulus.
FrAdd(a, b) ==
    LET s == AddLimbs(a, b, 1, 0)
    IN  IF GeqLimbs(s, FrModulus, NumLimbs) THEN SubLimbs(s, FrModulus, 1, 0) ELSE s

FrDouble(a) == FrAdd(a, a)

----------------------------------------------------------------------------
(* multipack.rs *)

\* (v >> i) & 1 == 1
BitOf(v, i) == (v \div (2^i)) % 2 = 1

\* The 7-bit slip: (0..7) read as inclusive of 0 and exclusive of 8 is right;
\* this one stops a bit early.
BytesToBitsLeShort(bytes) ==
    [k \in 1..(7 * Len(bytes)) |-> BitOf(bytes[((k - 1) \div 7) + 1], (k - 1) % 7)]

\* Most significant bit first within each byte.
BytesToBitsBe(bytes) ==
    [k \in 1..(8 * Len(bytes)) |-> BitOf(bytes[((k - 1) \div 8) + 1], 7 - ((k - 1) % 8))]

\* bytes.iter().flat_map(|&v| (0..8).map(move |i| (v >> i) & 1 == 1)).collect()
bytes_to_bits_le(bytes) ==
    [k \in 1..(8 * Len(bytes)) |-> BitOf(bytes[((k - 1) \div 8) + 1], (k - 1) % 8)]

\* bits.chunks(n): consecutive chunks of n, the last one possibly shorter
Chunks(bits, n) ==
    [c \in 1..((Len(bits) + n - 1) \div n) |->
        SubSeq(bits, (c - 1) * n + 1, IF c * n < Len(bits) THEN c * n ELSE Len(bits))]

\* One iteration of the inner loop: st = <<cur, coeff>>.
\*   if *bit { cur.add_assign(&coeff); }  coeff.double_in_place();
PackBit(bit, st) ==
    << IF bit THEN FrAdd(st[1], st[2]) ELSE st[1], FrDouble(st[2]) >>

\* The inner loop over chunk[lo..hi], in order, from the state st.  The range
\* is split in halves, and the left half's result bound as a value, only to
\* keep the evaluation shallow; the bits are still consumed left to right.
RECURSIVE PackRange(_, _, _, _)
PackRange(chunk, lo, hi, st) ==
    IF lo > hi THEN st
    ELSE IF lo = hi THEN PackBit(chunk[lo], st)
    ELSE LET mid == (lo + hi) \div 2
             left == {PackRange(chunk, lo, mid, st)}
         IN  CHOOSE r \in {PackRange(chunk, mid + 1, hi, l) : l \in left} : TRUE

\* let mut cur = zero(); let mut coeff = one(); for bit in bits {...}; push(cur)
PackChunk(chunk) == PackRange(chunk, 1, Len(chunk), <<FrZero, FrOne>>)[1]

compute_multipacking(bits) ==
    LET chunks == Chunks(bits, CAPACITY)
    IN  [c \in 1..Len(chunks) |-> PackChunk(chunks[c])]

----------------------------------------------------------------------------
(* The multipack specification: a byte string is chosen, turned into bits, *)
(* and packed.                                                             *)

PatternByte(seed, i) ==
    IF seed = 0 THEN 255
    ELSE IF seed = 1 THEN 0
    ELSE (seed * 53 + i * (35 + 2 * seed)) % 256

PackInit ==
    /\ CodecIdle /\ sqrtGreater = FALSE
    /\ AcceptIdle
    /\ ppc = "bytes"
    /\ \E len \in 0..MaxPackBytes, seed \in 0..MaxSeed :
          pBytes = [i \in 1..len |-> PatternByte(seed, i)]
    /\ pBits = <<>>
    /\ pScalars = <<>>

BytesToBits ==
    /\ ppc = "bytes"
    /\ pBits' = bytes_to_bits_le(pBytes)
    /\ ppc' = "bits"
    /\ UNCHANGED <<pBytes, pScalars>>
    /\ UNCHANGED <<codecVars, sqrtGreater, acceptVars>>

ComputeMultipacking ==
    /\ ppc = "bits"
    /\ pScalars' = compute_multipacking(pBits)
    /\ ppc' = "packed"
    /\ UNCHANGED <<pBytes, pBits>>
    /\ UNCHANGED <<codecVars, sqrtGreater, acceptVars>>

PackNext == BytesToBits \/ ComputeMultipacking

SpecPack == PackInit /\ [][PackNext]_vars

----------------------------------------------------------------------------
(* The base field Fq of BLS12-381 and its extension Fq2 = Fq[u]/(u^2 + 1), *)
(* scaled down: the modulus is 19 (3 mod 4, as the real one), a field      *)
(* element is serialised in FqBytes bytes, read as FqNumLimbs limbs.  An   *)
(* element is a pair <<c0, c1>>; Fq is the elements with c1 = 0.           *)

FqModulus == 19
FqLimbBytes == 2
FqNumLimbs == 2
FqBytes == FqLimbBytes * FqNumLimbs

\* the modulus as a little-endian limb sequence (BigInteger384)
FqModulusRepr == [j \in 1..FqNumLimbs |-> IF j = 1 THEN FqModulus ELSE 0]

FZero == <<0, 0>>
FOne == <<1, 0>>

FAdd(a, b) == <<(a[1] + b[1]) % FqModulus, (a[2] + b[2]) % FqModulus>>
FNeg(a) == <<(FqModulus - a[1]) % FqModulus, (FqModulus - a[2]) % FqModulus>>
FSub(a, b) == FAdd(a, FNeg(b))
FMul(a, b) ==
    << (a[1] * b[1] - a[2] * b[2]) % FqModulus,
       (a[1] * b[2] + a[2] * b[1]) % FqModulus >>
FSquare(a) == FMul(a, a)

RECURSIVE FqPow(_, _)
FqPow(n, e) == IF e = 0 THEN 1 ELSE (n * FqPow(n, e - 1)) % FqModulus

\* 1/a = conj(a) / (c0^2 + c1^2)
FInv(a) ==
    LET norm == (a[1] * a[1] + a[2] * a[2]) % FqModulus
        ninv == FqPow(norm, FqModulus - 2)
    IN  <<(a[1] * ninv) % FqModulus, ((FqModulus - a[2]) * ninv) % FqModulus>>

\* Ord: Fq by its canonical integer; Fq2 by c1, then c0.
FLess(a, b) == a[2] < b[2] \/ (a[2] = b[2] /\ a[1] < b[1])

FqElems == {<<n, 0>> : n \in 0..(FqModulus - 1)}
Fq2Elems == (0..(FqModulus - 1)) \X (0..(FqModulus - 1))

\* The curves: "G1" over Fq, "G2" over Fq2.
Curves == {"G1", "G2"}
BaseField(g) == IF g = "G1" THEN FqElems ELSE Fq2Elems

\* P::COEFF_B
COEFF_B(g) == IF g = "G1" THEN <<4, 0>> ELSE <<4, 1>>

\* the order of the prime subgroup (the characteristic of the scalar field)
SubgroupOrder == 7

\* The square roots of every element, computed once.
SqrtTable ==
    [g \in Curves |-> [a \in BaseField(g) |-> {y \in BaseField(g) : FSquare(y) = a}]]

None == [some |-> FALSE]
Some(v) == [some |-> TRUE, val |-> v]

\* SquareRootField::sqrt: None for a non-residue, else one of the two roots;
\* which one is the library's business, so both are allowed for.
FSqrt(g, a, greater) ==
    LET roots == SqrtTable[g][a]
    IN  IF roots = {} THEN None
        ELSE Some(CHOOSE y \in roots :
                    \A z \in roots : IF greater THEN ~FLess(y, z) ELSE ~FLess(z, y))

----------------------------------------------------------------------------
(* Affine points of the short Weierstrass curves y^2 = x^3 + COEFF_B. *)

\* GroupAffine::new(x, y, infinity)
GroupAffine(x, y, infinity) == [x |-> x, y |-> y, infinity |-> infinity]

\* GroupAffine::zero()
AffineZero == GroupAffine(FZero, FOne, TRUE)

is_on_curve(g, p) ==
    p.infinity \/ FSquare(p.y) = FAdd(FMul(FSquare(p.x), p.x), COEFF_B(g))

AffineDouble(p) ==
    IF p.infinity \/ p.y = FZero THEN AffineZero
    ELSE LET three == <<3, 0>>
             two == <<2, 0>>
             lam == FMul(FMul(three, FSquare(p.x)), FInv(FMul(two, p.y)))
             x3 == FSub(FSquare(lam), FAdd(p.x, p.x))
             y3 == FSub(FMul(lam, FSub(p.x, x3)), p.y)
         IN  GroupAffine(x3, y3, FALSE)

AffineAdd(p, q) ==
    IF p.infinity THEN q
    ELSE IF q.infinity THEN p
    ELSE IF p.x = q.x
         THEN (IF p.y = q.y THEN AffineDouble(p) ELSE AffineZero)
    ELSE LET lam == FMul(FSub(q.y, p.y), FInv(FSub(q.x, p.x)))
             x3 == FSub(FSub(FSquare(lam), p.x), q.x)
             y3 == FSub(FMul(lam, FSub(p.x, x3)), p.y)
         IN  GroupAffine(x3, y3, FALSE)

RECURSIVE AffineMul(_, _)
AffineMul(p, n) ==
    IF n = 0 THEN AffineZero
    ELSE IF n % 2 = 1 THEN AffineAdd(AffineDouble(AffineMul(p, n \div 2)), p)
    ELSE AffineDouble(AffineMul(p, n \div 2))

\* multiply by the scalar field's characteristic and compare with zero
is_in_correct_subgroup_assuming_on_curve(p) == AffineMul(p, SubgroupOrder).infinity

----------------------------------------------------------------------------
(* affine.rs *)

Err == [ok |-> FALSE]
Ok(v) == [ok |-> TRUE, val |-> v]

\* copy[0] & (1 << i) != 0
FlagSet(byte, i) == (byte \div (2^i)) % 2 = 1

\* u64::from_le_bytes of one limb (BigInteger384::read), scaled to FqLimbBytes
RECURSIVE LimbFromLe(_, _, _)
LimbFromLe(bytes, off, n) ==
    IF n = 0 THEN 0 ELSE bytes[off + 1] + 256 * LimbFromLe(bytes, off + 1, n - 1)

\* u64::to_be on a little-endian target: the limb's bytes swapped
RECURSIVE ToBe(_, _)
ToBe(v, n) ==
    IF n = 0 THEN 0 ELSE (v % 256) * (256^(n - 1)) + ToBe(v \div 256, n - 1)

\* a < b on limb sequences, from the most significant limb down
RECURSIVE ReprLess(_, _, _)
ReprLess(a, b, i) ==
    IF i = 0 THEN FALSE
    ELSE IF a[i] # b[i] THEN a[i] < b[i]
    ELSE ReprLess(a, b, i - 1)

\* Fq::from_repr is total: the element of a valid representation, and zero
\* for one that is not below the modulus.
FqFromRepr(res) ==
    IF ReprLess(res, FqModulusRepr, FqNumLimbs) THEN <<res[1], 0>> ELSE FZero

\* read_fq on the k-th field element of the buffer (the cursor's position).
\* BigInteger384::read cannot fail here: the buffer always holds the bytes.
read_fq(copy, k) ==
    LET off == (k - 1) * FqBytes
        bi  == [j \in 1..FqNumLimbs |-> LimbFromLe(copy, off + (j - 1) * FqLimbBytes, FqLimbBytes)]
        res == [j \in 1..FqNumLimbs |-> ToBe(bi[FqNumLimbs + 1 - j], FqLimbBytes)]
    IN  Ok(FqFromRepr(res))

\* Fq2::new(c0, c1)
Fq2New(c0, c1) == <<c0[1], c1[1]>>

\* copy[0] &= mask, mask = 2^bits - 1
MaskFirst(copy, bits) == [copy EXCEPT ![1] = @ % (2^bits)]

AllZero(copy) == \A i \in 1..Len(copy) : copy[i] = 0

\* G1Uncompressed::into_affine_unchecked, data: [u8; 2 * FqBytes]
G1Uncompressed_into_affine_unchecked(data) ==
    IF FlagSet(data[1], 7) THEN Err
    ELSE IF FlagSet(data[1], 6)
    THEN (IF AllZero(MaskFirst(data, 6)) THEN Ok(AffineZero) ELSE Err)
    ELSE IF FlagSet(data[1], 5) THEN Err
    ELSE LET copy == MaskFirst(data, 5)
             x == read_fq(copy, 1)
             y == read_fq(copy, 2)
         IN  IF ~x.ok \/ ~y.ok THEN Err
             ELSE Ok(GroupAffine(x.val, y.val, FALSE))

\* into_affine of the uncompressed encodings, after into_affine_unchecked()?
CheckedUncompressed(g, affine) ==
    IF ~affine.ok THEN Err
    ELSE IF ~is_on_curve(g, affine.val) THEN Err
    ELSE IF ~is_in_correct_subgroup_assuming_on_curve(affine.val) THEN Err
    ELSE Ok(affine.val)

\* into_affine of the compressed encodings, after into_affine_unchecked()?:
\* decompression guarantees that the point is on the curve
CheckedCompressed(affine) ==
    IF ~affine.ok THEN Err
    ELSE IF ~is_in_correct_subgroup_assuming_on_curve(affine.val) THEN Err
    ELSE Ok(affine.val)

\* G1Uncompressed::into_affine
G1Uncompressed_into_affine(data) ==
    CheckedUncompressed("G1", G1Uncompressed_into_affine_unchecked(data))

\* G2Uncompressed::into_affine_unchecked, data: [u8; 4 * FqBytes]
G2Uncompressed_into_affine_unchecked(data) ==
    IF FlagSet(data[1], 7) THEN Err
    ELSE IF FlagSet(data[1], 6)
    THEN (IF AllZero(MaskFirst(data, 6)) THEN Ok(AffineZero) ELSE Err)
    ELSE IF FlagSet(data[1], 5) THEN Err
    ELSE LET copy == MaskFirst(data, 5)
             x_c1 == read_fq(copy, 1)
             x_c0 == read_fq(copy, 2)
             y_c1 == read_fq(copy, 3)
             y_c0 == read_fq(copy, 4)
         IN  IF ~x_c1.ok \/ ~x_c0.ok \/ ~y_c1.ok \/ ~y_c0.ok THEN Err
             ELSE Ok(GroupAffine(Fq2New(x_c0.val, x_c1.val),
                                 Fq2New(y_c0.val, y_c1.val), FALSE))

\* G2Uncompressed::into_affine
G2Uncompressed_into_affine(data) ==
    CheckedUncompressed("G2", G2Uncompressed_into_affine_unchecked(data))

\* get_point_from_x taking sqrt()'s root for the lesser one: the comparison
\* y < negy is left out.
GetPointFromXNoCompare(g, x, greatest) ==
    LET x3b == FAdd(FMul(FSquare(x), x), COEFF_B(g))
        root == FSqrt(g, x3b, sqrtGreater)
    IN  IF ~root.some THEN Err
        ELSE LET y == root.val
                 negy == FNeg(y)
             IN  Ok(GroupAffine(x, IF greatest THEN negy ELSE y, FALSE))

\* get_point_from_x::<P>(x, greatest)
get_point_from_x(g, x, greatest) ==
    LET x3b == FAdd(FMul(FSquare(x), x), COEFF_B(g))
        root == FSqrt(g, x3b, sqrtGreater)
    IN  IF ~root.some THEN Err
        ELSE LET y == root.val
                 negy == FNeg(y)
             IN  Ok(GroupAffine(x, IF FLess(y, negy) # greatest THEN y ELSE negy, FALSE))

\* G1Compressed::into_affine_unchecked without its test of the compressed
\* flag.
G1CompressedNoFlagTest(data) ==
    IF FlagSet(data[1], 6)
    THEN (IF AllZero(MaskFirst(data, 6)) THEN Ok(AffineZero) ELSE Err)
    ELSE LET greatest == FlagSet(data[1], 5)
             copy == MaskFirst(data, 5)
             x == read_fq(copy, 1)
         IN  IF ~x.ok THEN Err
             ELSE get_point_from_x("G1", x.val, greatest)

\* G1Compressed::into_affine_unchecked masking all three flag bits before
\* the test for zero in the infinity case.
G1CompressedMaskThree(data) ==
    IF ~FlagSet(data[1], 7) THEN Err
    ELSE IF FlagSet(data[1], 6)
    THEN (IF AllZero(MaskFirst(data, 5)) THEN Ok(AffineZero) ELSE Err)
    ELSE LET greatest == FlagSet(data[1], 5)
             copy == MaskFirst(data, 5)
             x == read_fq(copy, 1)
         IN  IF ~x.ok THEN Err
             ELSE get_point_from_x("G1", x.val, greatest)

\* G1Compressed::into_affine_unchecked, data: [u8; FqBytes]
G1Compressed_into_affine_unchecked(data) ==
    IF ~FlagSet(data[1], 7) THEN Err
    ELSE IF FlagSet(data[1], 6)
    THEN (IF AllZero(MaskFirst(data, 6)) THEN Ok(AffineZero) ELSE Err)
    ELSE LET greatest == FlagSet(data[1], 5)
             copy == MaskFirst(data, 5)
             x == read_fq(copy, 1)
         IN  IF ~x.ok THEN Err
             ELSE get_point_from_x("G1", x.val, greatest)

\* G1Compressed::into_affine
G1Compressed_into_affine(data) ==
    CheckedCompressed(G1Compressed_into_affine_unchecked(data))

\* G2Compressed::into_affine_unchecked, data: [u8; 2 * FqBytes]
G2Compressed_into_affine_unchecked(data) ==
    IF ~FlagSet(data[1], 7) THEN Err
    ELSE IF FlagSet(data[1], 6)
    THEN (IF AllZero(MaskFirst(data, 6)) THEN Ok(AffineZero) ELSE Err)
    ELSE LET greatest == FlagSet(data[1], 5)
             copy == MaskFirst(data, 5)
             x_c1 == read_fq(copy, 1)
             x_c0 == read_fq(copy, 2)
         IN  IF ~x_c1.ok \/ ~x_c0.ok THEN Err
             ELSE get_point_from_x("G2", Fq2New(x_c0.val, x_c1.val), greatest)

\* G2Compressed::into_affine
G2Compressed_into_affine(data) ==
    CheckedCompressed(G2Compressed_into_affine_unchecked(data))

read_g1affine(data) == G1Uncompressed_into_affine(data)
read_g2affine(data) == G2Uncompressed_into_affine(data)
read_compressed_g1affine(data) == G1Compressed_into_affine(data)
read_compressed_g2affine(data) == G2Compressed_into_affine(data)

----------------------------------------------------------------------------
(* The decoding specification: a byte string of the longest encoding's     *)
(* length is chosen and handed to each decoder, the shorter encodings      *)
(* reading its prefix.                                                     *)

\* Bounds of the decoders' inputs: the low limb of a coordinate ranges over
\* 0..MaxLowLimb, its most significant limb over 0..MaxHighLimb.
MaxLowLimb == 20
MaxHighLimb == 1

\* the big-endian FqBytes of hi * 2^16 + lo
FqToBytes(hi, lo) == <<hi \div 256, hi % 256, lo \div 256, lo % 256>>

\* the byte string with the three flag bits of byte 0 set to `flags`
WithFlags(bytes, flags) == [bytes EXCEPT ![1] = (@ % 32) + 32 * flags]

G1Len == 2 * FqBytes
G2Len == 4 * FqBytes
Prefix(bytes, n) == SubSeq(bytes, 1, n)

NoResult == [done |-> FALSE]
Result(unchecked, checked) == [done |-> TRUE, unchecked |-> unchecked, checked |-> checked]

\* coordinates: in range, out of range, and with the upper limb in use
Coords ==
    {FqToBytes(hi, lo) : hi \in 0..MaxHighLimb, lo \in 0..MaxLowLimb}
InRangeCoords == {FqToBytes(0, lo) : lo \in 0..(FqModulus - 1)}

\* the encodings of the affine points of G2 (x_c1, x_c0, y_c1, y_c0)
G2PointBytes ==
    {FqToBytes(0, x[2]) \o FqToBytes(0, x[1]) \o FqToBytes(0, y[2]) \o FqToBytes(0, y[1]) :
        <<x, y>> \in {xy \in Fq2Elems \X Fq2Elems :
                        is_on_curve("G2", GroupAffine(xy[1], xy[2], FALSE))}}

CodecInputs ==
    {a \o b \o FqToBytes(0, 0) \o FqToBytes(0, 0) : a \in Coords, b \in Coords}
    \cup {a \o b \o c \o c : a \in InRangeCoords, b \in {FqToBytes(0, 0)}, c \in {FqToBytes(0, 1)}}
    \cup G2PointBytes

CodecInit ==
    /\ cpc = "g1u"
    /\ \E payload \in CodecInputs, flags \in 0..7 : cInput = WithFlags(payload, flags)
    /\ sqrtGreater \in BOOLEAN
    /\ cOut = [d \in {"g1u", "g2u", "g1c", "g2c"} |-> NoResult]
    /\ PackIdle
    /\ AcceptIdle

ReadG1Affine ==
    /\ cpc = "g1u"
    /\ cOut' = [cOut EXCEPT !["g1u"] =
                  Result(G1Uncompressed_into_affine_unchecked(Prefix(cInput, G1Len)),
                         read_g1affine(Prefix(cInput, G1Len)))]
    /\ cpc' = "g2u"
    /\ UNCHANGED <<cInput, sqrtGreater>>
    /\ UNCHANGED <<packVars, acceptVars>>

ReadG2Affine ==
    /\ cpc = "g2u"
    /\ cOut' = [cOut EXCEPT !["g2u"] =
                  Result(G2Uncompressed_into_affine_unchecked(cInput),
                         read_g2affine(cInput))]
    /\ cpc' = "g1c"
    /\ UNCHANGED <<cInput, sqrtGreater>>
    /\ UNCHANGED <<packVars, acceptVars>>

ReadCompressedG1Affine ==
    /\ cpc = "g1c"
    /\ cOut' = [cOut EXCEPT !["g1c"] =
                  Result(G1Compressed_into_affine_unchecked(Prefix(cInput, FqBytes)),
                         read_compressed_g1affine(Prefix(cInput, FqBytes)))]
    /\ cpc' = "g2c"
    /\ UNCHANGED <<cInput, sqrtGreater>>
    /\ UNCHANGED <<packVars, acceptVars>>

ReadCompressedG2Affine ==
    /\ cpc = "g2c"
    /\ cOut' = [cOut EXCEPT !["g2c"] =
                  Result(G2Compressed_into_affine_unchecked(Prefix(cInput, G1Len)),
                         read_compressed_g2affine(Prefix(cInput, G1Len)))]
    /\ cpc' = "done"
    /\ UNCHANGED <<cInput, sqrtGreater>>
    /\ UNCHANGED <<packVars, acceptVars>>

----------------------------------------------------------------------------
(* JubJub, scaled down to the cyclic group of order 8 * JubjubPrime: a     *)
(* point is its index, the identity is 0.  A 32-byte point encoding is     *)
(* modelled by a number: the point's index, or a number that is no index.  *)

JubjubCofactor == 8
JubjubPrime == 5
JubjubOrder == JubjubCofactor * JubjubPrime

PointZero == 0
PointAdd(p, q) == (p + q) % JubjubOrder
PointNeg(p) == (JubjubOrder - p) % JubjubOrder
PointSub(p, q) == PointAdd(p, PointNeg(q))
PointDouble(p) == PointAdd(p, p)
\* scalar multiplication; the scalar lives in the field of JubjubPrime elements
PointMul(p, n) == (p * (n % JubjubPrime)) % JubjubOrder

\* mul_by_cofactor: three doublings
MulByCofactor(p) == PointDouble(PointDouble(PointDouble(p)))

\* zexe_redjubjub::read_point / write_point
read_point(buf) == IF buf < JubjubOrder THEN Some(buf) ELSE None
write_point(p) == p

\* ProjectiveCurve::into_affine: two coordinates that determine the point
into_affine(p) == [x |-> p, y |-> (3 * p + 1) % JubjubOrder]

\* FixedGenerators::*.point(): generators of the prime-order subgroup
FixedGenerator(tag) ==
    CASE tag = "SpendingKeyGenerator" -> 8
      [] tag = "ValueCommitmentRandomness" -> 16
      [] tag = "ValueCommitmentValue" -> 24

\* <JubJubParameters as ModelParameters>::BaseField::read: a 32-byte buffer
\* is modelled by what the read makes of it.
BaseFieldRead(buf) == IF buf.readable THEN Ok(buf.val) ELSE Err

\* PublicKey::read
PublicKeyRead(buf) ==
    LET p == read_point(buf) IN IF p.some THEN Ok([point |-> p.val]) ELSE Err

\* The hash-to-scalar of RedJubjub, scaled down.
HashToScalar(rbar, msg) == (rbar + 2 * msg[1] + 3 * msg[2] + 1) % JubjubPrime

\* PublicKey::verify(msg, sig, generator): with c = H(rbar || msg),
\*   [cofactor] (c * pk + R - s * G) = 0
PublicKeyVerify(pk, msg, sig, generator) ==
    LET r == read_point(sig.rbar)
    IN  IF ~r.some THEN FALSE
        ELSE IF sig.sbar >= JubjubPrime THEN FALSE
        ELSE LET c == HashToScalar(sig.rbar, msg)
                 lhs == PointSub(PointAdd(PointMul(pk.point, c), r.val),
                                 PointMul(FixedGenerator(generator), sig.sbar))
             IN  MulByCofactor(lhs) = PointZero

----------------------------------------------------------------------------
(* Groth16 over the scaled-down BLS12-381. *)

\* an element of Fr from a small number
FrFromInt(n) == [i \in 1..NumLimbs |-> IF i = 1 THEN n ELSE 0]

\* zcash::spend_vk() and zcash::output_vk(), prepared: the number of public
\* inputs the key is for, and a tag standing for its group elements
SpendVk == [inputs |-> 7, tag |-> 1]
OutputVk == [inputs |-> 5, tag |-> 2]

RECURSIVE InputDigest(_, _)
InputDigest(public_input, i) ==
    IF i > Len(public_input) THEN 0
    ELSE (i * (public_input[i][1] % 251) + InputDigest(public_input, i + 1)) % 2

\* groth16::verify_proof: Err for a key that does not fit the inputs, else
\* whether the pairing equation holds; the equation is scaled down to a
\* parity check that reads the key, every input and every proof element.
verify_proof(pvk, proof, public_input) ==
    IF Len(public_input) # pvk.inputs THEN Err
    ELSE Ok((pvk.tag + InputDigest(public_input, 1)
             + proof.a.y[1] + proof.b.y[1] + proof.c.y[1]) % 2 = 0)

----------------------------------------------------------------------------
(* proof.rs; a proof is ProofLen bytes: G1 | G2 | G1, compressed *)

ProofLen == FqBytes + G1Len + FqBytes

\* Ok(Proof { a, b, c }), each element having passed its `?`
Proof(a, b, c) ==
    IF ~a.ok THEN Err
    ELSE IF ~b.ok THEN Err
    ELSE IF ~c.ok THEN Err
    ELSE Ok([a |-> a.val, b |-> b.val, c |-> c.val])

read_proof(proof) ==
    Proof(read_compressed_g1affine(SubSeq(proof, 1, FqBytes)),
          read_compressed_g2affine(SubSeq(proof, FqBytes + 1, FqBytes + G1Len)),
          read_compressed_g1affine(SubSeq(proof, FqBytes + G1Len + 1, ProofLen)))

----------------------------------------------------------------------------
(* lib.rs *)

\* balancing_value is an i64, scaled down to ValueBits bits
ValueBits == 16
I64Min == -(2^(ValueBits - 1))
I64Max == 2^(ValueBits - 1) - 1

\* is_small_order with one doubling short: the points of order 8 pass
IsSmallOrderTwoDoublings(point) == PointDouble(PointDouble(point)) = PointZero

\* point.double().double().double().is_zero()
is_small_order(point) == PointDouble(PointDouble(PointDouble(point))) = PointZero

require_non_small_order_point(point_buff) ==
    LET p == read_point(point_buff)
    IN  IF p.some /\ ~is_small_order(p.val) THEN Ok(p.val) ELSE Err

\* i64::wrapping_abs read as u64 in place of checked_abs: no None
CheckedAbsWrapping(value) == Some(IF value < 0 THEN -value ELSE value)

\* i64::checked_abs
CheckedAbs(value) ==
    IF value = I64Min THEN None ELSE Some(IF value < 0 THEN -value ELSE value)

compute_value_balance(value) ==
    LET abs == CheckedAbs(value)
    IN  IF ~abs.some THEN Err
        ELSE LET is_negative == value < 0
                 value_balance == PointMul(FixedGenerator("ValueCommitmentValue"), abs.val)
             IN  Ok(IF is_negative THEN PointNeg(value_balance) ELSE value_balance)

\* The outcome of a step: whether it returned Ok, whether it panicked, and
\* the accumulator it leaves to its caller.
StepOk(t) == [ok |-> TRUE, panic |-> FALSE, total |-> t]
StepErr(t) == [ok |-> FALSE, panic |-> FALSE, total |-> t]
StepPanic(t) == [ok |-> FALSE, panic |-> TRUE, total |-> t]

\* The packing of the nullifiers in use, computed once:
\* compute_multipacking(bytes_to_bits_le(nullifier)).
Nullifiers == {[i \in 1..NullifierLen |-> PatternByte(s, i)] : s \in {1, 3}}
PackedNullifier ==
    [n \in Nullifiers |-> compute_multipacking(bytes_to_bits_le(n))]

\* the public input of the Spend circuit
SpendPublicInput(randomized_key, value_commitment, anchor, nullifier) ==
    LET randomized_key_xy == into_affine(randomized_key.point)
        value_xy == into_affine(value_commitment)
    IN  << FrFromInt(randomized_key_xy.x), FrFromInt(randomized_key_xy.y),
           FrFromInt(value_xy.x), FrFromInt(value_xy.y),
           FrFromInt(anchor), nullifier[1], nullifier[2] >>

\* Ok(true) of verify_proof; its Err and its Ok(false) both end in Error::Proof
IsVerificationOk(r) == r.ok /\ r.val

\* accept_spend assigning the value commitment to the accumulator where the
\* code adds it
AcceptSpendOverwrite(spend_vk, sighash_, total_, spend) ==
    LET value_commitment == require_non_small_order_point(spend.value_commitment)
        total1 == value_commitment.val
        anchor == BaseFieldRead(spend.anchor)
        data_to_be_signed == <<spend.randomized_key, sighash_>>
        randomized_key == PublicKeyRead(spend.randomized_key)
        nullifier == PackedNullifier[spend.nullifier]
        public_input == SpendPublicInput(randomized_key.val, value_commitment.val,
                                         anchor.val, nullifier)
        zkproof == read_proof(spend.zkproof)
    IN  IF ~value_commitment.ok THEN StepErr(total_)
        ELSE IF ~anchor.ok THEN StepErr(total1)
        ELSE IF ~randomized_key.ok THEN StepErr(total1)
        ELSE IF is_small_order(randomized_key.val.point) THEN StepErr(total1)
        ELSE IF ~PublicKeyVerify(randomized_key.val, data_to_be_signed,
                                 spend.spend_auth_sig, "SpendingKeyGenerator")
             THEN StepErr(total1)
        ELSE IF Len(nullifier) # 2 THEN StepPanic(total1)
        ELSE IF ~zkproof.ok THEN StepErr(total1)
        ELSE IF ~IsVerificationOk(verify_proof(spend_vk, zkproof.val, public_input))
             THEN StepErr(total1)
        ELSE StepOk(total1)

accept_spend(spend_vk, sighash_, total_, spend) ==
    LET value_commitment == require_non_small_order_point(spend.value_commitment)
        \* *total += value_commitment
        total1 == PointAdd(total_, value_commitment.val)
        anchor == BaseFieldRead(spend.anchor)
        data_to_be_signed == <<spend.randomized_key, sighash_>>
        randomized_key == PublicKeyRead(spend.randomized_key)
        nullifier == PackedNullifier[spend.nullifier]
        public_input == SpendPublicInput(randomized_key.val, value_commitment.val,
                                         anchor.val, nullifier)
        zkproof == read_proof(spend.zkproof)
    IN  IF ~value_commitment.ok THEN StepErr(total_)
        ELSE IF ~anchor.ok THEN StepErr(total1)
        ELSE IF ~randomized_key.ok THEN StepErr(total1)
        ELSE IF is_small_order(randomized_key.val.point) THEN StepErr(total1)
        ELSE IF ~PublicKeyVerify(randomized_key.val, data_to_be_signed,
                                 spend.spend_auth_sig, "SpendingKeyGenerator")
             THEN StepErr(total1)
        ELSE IF Len(nullifier) # 2 THEN StepPanic(total1)
        ELSE IF ~zkproof.ok THEN StepErr(total1)
        ELSE IF ~IsVerificationOk(verify_proof(spend_vk, zkproof.val, public_input))
             THEN StepErr(total1)
        ELSE StepOk(total1)

\* the public input of the Output circuit
OutputPublicInput(value_commitment, ephemeral_key, note_commitment) ==
    LET ephemeral_xy == into_affine(ephemeral_key)
        value_xy == into_affine(value_commitment)
    IN  << FrFromInt(value_xy.x), FrFromInt(value_xy.y),
           FrFromInt(ephemeral_xy.x), FrFromInt(ephemeral_xy.y),
           FrFromInt(note_commitment) >>

\* accept_output handing the accumulator back as it got it when a check
\* after the value commitment fails, where the code leaves the subtraction
\* in place
AcceptOutputRestoring(output_vk, total_, output) ==
    LET value_commitment == require_non_small_order_point(output.value_commitment)
        total1 == PointSub(total_, value_commitment.val)
        note_commitment == BaseFieldRead(output.note_commitment)
        ephemeral_key == require_non_small_order_point(output.ephemeral_key)
        public_input == OutputPublicInput(value_commitment.val, ephemeral_key.val,
                                          note_commitment.val)
        zkproof == read_proof(output.zkproof)
    IN  IF ~value_commitment.ok THEN StepErr(total_)
        ELSE IF ~note_commitment.ok THEN StepErr(total_)
        ELSE IF ~ephemeral_key.ok THEN StepErr(total_)
        ELSE IF ~zkproof.ok THEN StepErr(total_)
        ELSE IF ~IsVerificationOk(verify_proof(output_vk, zkproof.val, public_input))
             THEN StepErr(total_)
        ELSE StepOk(total1)

accept_output(output_vk, total_, output) ==
    LET value_commitment == require_non_small_order_point(output.value_commitment)
        \* *total -= value_commitment
        total1 == PointSub(total_, value_commitment.val)
        note_commitment == BaseFieldRead(output.note_commitment)
        ephemeral_key == require_non_small_order_point(output.ephemeral_key)
        public_input == OutputPublicInput(value_commitment.val, ephemeral_key.val,
                                          note_commitment.val)
        zkproof == read_proof(output.zkproof)
    IN  IF ~value_commitment.ok THEN StepErr(total_)
        ELSE IF ~note_commitment.ok THEN StepErr(total1)
        ELSE IF ~ephemeral_key.ok THEN StepErr(total1)
        ELSE IF ~zkproof.ok THEN StepErr(total1)
        ELSE IF ~IsVerificationOk(verify_proof(output_vk, zkproof.val, public_input))
             THEN StepErr(total1)
        ELSE StepOk(total1)

\* the key the binding signature is checked under, and the message
\* accept_sapling_final adding the value balance where the code adds its
\* negation
AcceptSaplingFinalNoNeg(sighash_, total_, sapling_) ==
    LET value_balance == compute_value_balance(sapling_.balancing_value)
        binding_verification_key == [point |-> PointAdd(total_, value_balance.val)]
        data_to_be_signed ==
            <<write_point(binding_verification_key.point), sighash_>>
    IN  IF ~value_balance.ok THEN StepErr(total_)
        ELSE IF ~PublicKeyVerify(binding_verification_key, data_to_be_signed,
                                 sapling_.binding_sig, "ValueCommitmentRandomness")
             THEN StepErr(total_)
        ELSE StepOk(total_)

accept_sapling_final(sighash_, total_, sapling_) ==
    LET value_balance == compute_value_balance(sapling_.balancing_value)
        \* total.add_assign(&value_balance.neg())
        binding_verification_key ==
            [point |-> PointAdd(total_, PointNeg(value_balance.val))]
        data_to_be_signed ==
            <<write_point(binding_verification_key.point), sighash_>>
    IN  IF ~value_balance.ok THEN StepErr(total_)
        ELSE IF ~PublicKeyVerify(binding_verification_key, data_to_be_signed,
                                 sapling_.binding_sig, "ValueCommitmentRandomness")
             THEN StepErr(total_)
        ELSE StepOk(total_)

\* accept_sapling's two loops and its last call, as a function of the bundle
RECURSIVE SpendLoop(_, _, _, _)
SpendLoop(sighash_, spends, i, total_) ==
    IF i > Len(spends) THEN StepOk(total_)
    ELSE LET r == accept_spend(SpendVk, sighash_, total_, spends[i])
         IN  IF r.ok THEN SpendLoop(sighash_, spends, i + 1, r.total) ELSE r

RECURSIVE OutputLoop(_, _, _)
OutputLoop(outputs, i, total_) ==
    IF i > Len(outputs) THEN StepOk(total_)
    ELSE LET r == accept_output(OutputVk, total_, outputs[i])
         IN  IF r.ok THEN OutputLoop(outputs, i + 1, r.total) ELSE r

accept_sapling(sighash_, sapling_) ==
    LET s == SpendLoop(sighash_, sapling_.spends, 1, PointZero)
    IN  IF ~s.ok THEN s
        ELSE LET o == OutputLoop(sapling_.outputs, 1, s.total)
             IN  IF ~o.ok THEN o
                 ELSE accept_sapling_final(sighash_, o.total, sapling_)

Verdict(r) == IF r.ok THEN "Ok" ELSE IF r.panic THEN "Panic" ELSE "Err"

----------------------------------------------------------------------------
(* The bundles handed to accept_sapling.  A description is built as a      *)
(* signer and prover would build it, and then possibly spoilt in one of    *)
(* its fields.                                                             *)

MaxItems == 2

\* the sighashes tried
Sighashes == {1, 2}

UndecodablePoint == JubjubOrder + 1

\* a signature that verifies, found by trying every s
SignatureFor(point, msg, generator) ==
    CHOOSE sig \in {[rbar |-> 16, sbar |-> s] : s \in 0..(JubjubPrime - 1)} :
        PublicKeyVerify([point |-> point], msg, sig, generator)

SpoiltSignature(sig) == [sig EXCEPT !.sbar = (@ + 1) % JubjubPrime]

\* proofs of points of the prime subgroups; the two differ in the sort flag
\* of their last element
ProofBytes(sort) ==
    <<128, 0, 0, 1>> \o <<128, 0, 0, 18, 0, 0, 0, 10>> \o <<128 + 32 * sort, 0, 0, 7>>
\* its first element's x gives no point of the curve
UndecodableProof ==
    <<128, 0, 0, 2>> \o <<128, 0, 0, 18, 0, 0, 0, 10>> \o <<128, 0, 0, 7>>

\* the points ProofBytes(sort) encodes: the flag picks the greater y
ProofPoints(sort) ==
    [ a |-> [x |-> <<1, 0>>, y |-> <<9, 0>>, infinity |-> FALSE],
      b |-> [x |-> <<10, 18>>, y |-> <<12, 5>>, infinity |-> FALSE],
      c |-> [x |-> <<7, 0>>, y |-> <<9 + sort, 0>>, infinity |-> FALSE] ]

\* the proof the key accepts for the inputs (wanted = TRUE), or the other
ProofFor(pvk, public_input, wanted) ==
    ProofBytes(CHOOSE sort \in {0, 1} :
                   verify_proof(pvk, ProofPoints(sort), public_input).val = wanted)

SpendDefects ==
    {"none", "vc_undecodable", "vc_small", "anchor", "rk_undecodable", "rk_small",
     "sig", "proof_decode", "proof_verify"}

SpendDescription(sighash_, vc, nullifier, defect) ==
    LET value_commitment ==
            IF defect = "vc_undecodable" THEN UndecodablePoint
            ELSE IF defect = "vc_small" THEN JubjubPrime
            ELSE vc
        randomized_key ==
            IF defect = "rk_undecodable" THEN UndecodablePoint
            ELSE IF defect = "rk_small" THEN 2 * JubjubPrime
            ELSE 3
        anchor == IF defect = "anchor" THEN [readable |-> FALSE, val |-> 0]
                  ELSE [readable |-> TRUE, val |-> 6]
        sig == IF defect = "rk_undecodable" THEN [rbar |-> 16, sbar |-> 0]
               ELSE SignatureFor(randomized_key, <<randomized_key, sighash_>>,
                                 "SpendingKeyGenerator")
        public_input ==
            SpendPublicInput([point |-> randomized_key % JubjubOrder],
                             value_commitment % JubjubOrder, anchor.val,
                             PackedNullifier[nullifier])
    IN  [ value_commitment |-> value_commitment,
          anchor |-> anchor,
          nullifier |-> nullifier,
          randomized_key |-> randomized_key,
          zkproof |-> IF defect = "proof_decode" THEN UndecodableProof
                      ELSE ProofFor(SpendVk, public_input, defect # "proof_verify"),
          spend_auth_sig |-> IF defect = "sig" THEN SpoiltSignature(sig) ELSE sig ]

SpendPool(sighash_) ==
    {SpendDescription(sighash_, 9, [i \in 1..NullifierLen |-> PatternByte(3, i)], d) :
        d \in SpendDefects}
    \cup {SpendDescription(sighash_, 17, [i \in 1..NullifierLen |-> PatternByte(1, i)], "none")}

OutputDefects ==
    {"none", "vc_undecodable", "vc_small", "note_commitment", "ek_undecodable",
     "ek_small", "proof_decode", "proof_verify"}

OutputDescription(vc, defect) ==
    LET value_commitment ==
            IF defect = "vc_undecodable" THEN UndecodablePoint
            ELSE IF defect = "vc_small" THEN 3 * JubjubPrime
            ELSE vc
        ephemeral_key ==
            IF defect = "ek_undecodable" THEN UndecodablePoint
            ELSE IF defect = "ek_small" THEN 4 * JubjubPrime
            ELSE 11
        note_commitment ==
            IF defect = "note_commitment" THEN [readable |-> FALSE, val |-> 0]
            ELSE [readable |-> TRUE, val |-> 4]
        public_input ==
            OutputPublicInput(value_commitment % JubjubOrder,
                              ephemeral_key % JubjubOrder, note_commitment.val)
    IN  [ value_commitment |-> value_commitment,
          note_commitment |-> note_commitment,
          ephemeral_key |-> ephemeral_key,
          zkproof |-> IF defect = "proof_decode" THEN UndecodableProof
                      ELSE ProofFor(OutputVk, public_input, defect # "proof_verify") ]

OutputPool ==
    {OutputDescription(2, d) : d \in OutputDefects} \cup {OutputDescription(13, "none")}

ValueSamples == {I64Min, -3, 0, 2, I64Max}

\* the pools, by sighash
SpendPools == [h \in Sighashes |-> SpendPool(h)]

Signatures == {[rbar |-> 16, sbar |-> s] : s \in 0..(JubjubPrime - 1)}

----------------------------------------------------------------------------
(* accept_sapling, one loop iteration at a time. *)

Init ==
    /\ PackIdle /\ CodecIdle
    /\ sqrtGreater \in BOOLEAN
    /\ sighash \in Sighashes
    /\ \E k \in 0..MaxItems, m \in 0..MaxItems :
          /\ k + m <= MaxItems
          /\ \E sp \in [1..k -> SpendPools[sighash]], out \in [1..m -> OutputPool],
                v \in ValueSamples, sig \in Signatures :
                sapling = [ balancing_value |-> v, spends |-> sp, outputs |-> out,
                            binding_sig |-> sig ]
    /\ apc = "spends"
    /\ idx = 1
    /\ total = PointZero
    /\ result = "pending"
    /\ log = <<>>

\* A loop iteration without the `?`: the error is recorded and the loop goes on
StepNoReturn(kind, r) ==
    /\ total' = r.total
    /\ log' = Append(log, <<kind, idx>>)
    /\ idx' = idx + 1
    /\ result' = IF r.ok THEN result ELSE Verdict(r)
    /\ UNCHANGED apc

\* One iteration of a loop of accept_sapling: the `?` returns on an error,
\* and the accumulator keeps what the step did to it.
Step(kind, r) ==
    /\ total' = r.total
    /\ log' = Append(log, <<kind, idx>>)
    /\ IF r.ok
       THEN idx' = idx + 1 /\ UNCHANGED <<apc, result>>
       ELSE apc' = "done" /\ result' = Verdict(r) /\ UNCHANGED idx

\* the value of accept_sapling's last expression is its result
Final(r) ==
    /\ result' = Verdict(r)
    /\ total' = r.total
    /\ log' = Append(log, <<"final", 0>>)
    /\ apc' = "done"

\* for spend in spends { accept_spend(spend_vk, sighash, &mut total, spend)?; }
AcceptSpend ==
    /\ apc = "spends"
    /\ idx <= Len(sapling.spends)
    /\ Step("spend", accept_spend(SpendVk, sighash, total, sapling.spends[idx]))
    /\ UNCHANGED <<sighash, sapling, sqrtGreater, packVars, codecVars>>

SpendsDone ==
    /\ apc = "spends"
    /\ idx > Len(sapling.spends)
    /\ apc' = "outputs"
    /\ idx' = 1
    /\ UNCHANGED <<sighash, sapling, total, result, log, sqrtGreater, packVars, codecVars>>

\* for output in outputs { accept_output(output_vk, &mut total, output)?; }
AcceptOutput ==
    /\ apc = "outputs"
    /\ idx <= Len(sapling.outputs)
    /\ Step("output", accept_output(OutputVk, total, sapling.outputs[idx]))
    /\ UNCHANGED <<sighash, sapling, sqrtGreater, packVars, codecVars>>

OutputsDone ==
    /\ apc = "outputs"
    /\ idx > Len(sapling.outputs)
    /\ apc' = "final"
    /\ UNCHANGED <<sighash, sapling, idx, total, result, log, sqrtGreater, packVars, codecVars>>

\* accept_sapling_final(sighash, total, sapling)
AcceptSaplingFinal ==
    /\ apc = "final"
    /\ Final(accept_sapling_final(sighash, total, sapling))
    /\ UNCHANGED <<sighash, sapling, idx, sqrtGreater, packVars, codecVars>>

Next ==
    \/ AcceptSpend
    \/ SpendsDone
    \/ AcceptOutput
    \/ OutputsDone
    \/ AcceptSaplingFinal

Spec == Init /\ [][Next]_vars

----------------------------------------------------------------------------
(* Properties of accept_sapling. *)

\* the rearrangements of a sequence
IndexPermutations(n) == {f \in [1..n -> 1..n] : \A i, j \in 1..n : f[i] = f[j] => i = j}
Permuted(seq, f) == [i \in 1..Len(seq) |-> seq[f[i]]]
Reordered(b) ==
    { [b EXCEPT !.spends = Permuted(b.spends, f), !.outputs = Permuted(b.outputs, g)] :
        f \in IndexPermutations(Len(b.spends)), g \in IndexPermutations(Len(b.outputs)) }

\* C1: the verdict the run ended with is the verdict of accept_sapling on
\* every bundle that differs from this one by the order of its spends and by
\* the order of its outputs, under the same keys and sighash.
C1_OrderInvariance ==
    apc = "done" =>
        \A b \in Reordered(sapling) : Verdict(accept_sapling(sighash, b)) = result

\* an accepted bundle of two different spends
C1_Witness ==
    /\ apc = "done" /\ result = "Ok"
    /\ Len(sapling.spends) = 2
    /\ sapling.spends[1] # sapling.spends[2]

\* the sum of the value commitments of the first n descriptions
RECURSIVE SumOfCommitments(_, _)
SumOfCommitments(items, n) ==
    IF n = 0 THEN PointZero
    ELSE PointAdd(SumOfCommitments(items, n - 1), items[n].value_commitment)

\* sum vc(spends[1..ns]) - sum vc(outputs[1..no])
Balance(ns, no) ==
    PointSub(SumOfCommitments(sapling.spends, ns), SumOfCommitments(sapling.outputs, no))

\* v * G_vcv for an integer v of either sign
ScalarTimesGvcv(v) ==
    (FixedGenerator("ValueCommitmentValue") * (v % JubjubPrime)) % JubjubOrder

Logged(kind) == Cardinality({i \in 1..Len(log) : log[i][1] = kind})

\* C2: the accumulator starts at the identity and, while no step has failed,
\* is the sum of the value commitments of the spends processed minus that of
\* the outputs processed; when the run ends with Ok, binding_sig verifies
\* under bvk = sum vc(spends) - sum vc(outputs) - balancing_value * G_vcv on
\* the message bvk || sighash with the ValueCommitmentRandomness generator.
C2_BalanceClosure ==
    /\ log = <<>> => total = PointZero
    /\ result \in {"pending", "Ok"} => total = Balance(Logged("spend"), Logged("output"))
    /\ result = "Ok" =>
          LET bvk == PointSub(Balance(Len(sapling.spends), Len(sapling.outputs)),
                              ScalarTimesGvcv(sapling.balancing_value))
          IN  PublicKeyVerify([point |-> bvk], <<write_point(bvk), sighash>>,
                              sapling.binding_sig, "ValueCommitmentRandomness")

\* an accepted bundle of a spend and an output with a balancing value
C2_Witness ==
    /\ apc = "done" /\ result = "Ok"
    /\ Len(sapling.spends) >= 1 /\ Len(sapling.outputs) >= 1
    /\ ScalarTimesGvcv(sapling.balancing_value) # PointZero

\* the steps of accept_sapling on the bundle, in the order of the code
Canonical ==
    LET ns == Len(sapling.spends)
        no == Len(sapling.outputs)
    IN  [i \in 1..(ns + no + 1) |->
            IF i <= ns THEN <<"spend", i>>
            ELSE IF i <= ns + no THEN <<"output", i - ns>>
            ELSE <<"final", 0>>]

\* whether a check of the i-th step fails; the final step is given the
\* accumulator that its predecessors leave when none of them fails
ItemFails(i) ==
    LET ns == Len(sapling.spends)
        no == Len(sapling.outputs)
    IN  IF i <= ns THEN ~accept_spend(SpendVk, sighash, PointZero, sapling.spends[i]).ok
        ELSE IF i <= ns + no
             THEN ~accept_output(OutputVk, PointZero, sapling.outputs[i - ns]).ok
        ELSE ~accept_sapling_final(sighash, Balance(ns, no), sapling).ok

\* C3: the steps performed are an initial segment of: the spends in input
\* order, the outputs in input order, the final check; no step performed
\* before the last one has failed; a run ends with Ok only when every step
\* has been performed and none has failed, and otherwise ends with Err at
\* the first failing step, with nothing after it performed.
C3_FirstFailure ==
    /\ log = SubSeq(Canonical, 1, Len(log))
    /\ \A i \in 1..(Len(log) - 1) : ~ItemFails(i)
    /\ IF apc = "done"
       THEN IF result = "Ok"
            THEN log = Canonical /\ ~ItemFails(Len(log))
            ELSE result = "Err" /\ ItemFails(Len(log))
       ELSE result = "pending" /\ (Len(log) >= 1 => ~ItemFails(Len(log)))

\* a run rejected at its first step that had a second step to perform
C3_Witness ==
    /\ apc = "done" /\ result = "Err"
    /\ Len(log) = 1
    /\ Len(sapling.spends) + Len(sapling.outputs) = 2

SmallOrderPoints ==
    {p \in 0..(JubjubOrder - 1) : (JubjubCofactor * p) % JubjubOrder = PointZero}

ProofChoices == {ProofBytes(0), ProofBytes(1), UndecodableProof}

\* C4: a spend whose value_commitment or randomized_key encodes a point of
\* small order is rejected by accept_spend, and an output whose
\* value_commitment or ephemeral_key does is rejected by accept_output,
\* whatever signature and proof come with it.
C4_SmallOrderRejection ==
    /\ \A j \in 1..Len(log) :
          LET item == IF log[j][1] = "spend" THEN sapling.spends[log[j][2]]
                      ELSE IF log[j][1] = "output" THEN sapling.outputs[log[j][2]]
                      ELSE [value_commitment |-> 1]
              keys == {item.value_commitment}
                      \cup (IF log[j][1] = "spend" THEN {item.randomized_key} ELSE {})
                      \cup (IF log[j][1] = "output" THEN {item.ephemeral_key} ELSE {})
          IN  keys \cap SmallOrderPoints # {} => j = Len(log) /\ result = "Err"
    /\ log = <<>> =>
       \A p \in SmallOrderPoints, proof \in ProofChoices :
        /\ \A i \in 1..Len(sapling.spends), sig \in Signatures :
              LET spend == [sapling.spends[i] EXCEPT !.zkproof = proof,
                                                     !.spend_auth_sig = sig]
              IN  /\ ~accept_spend(SpendVk, sighash, total,
                                   [spend EXCEPT !.value_commitment = p]).ok
                  /\ ~accept_spend(SpendVk, sighash, total,
                                   [spend EXCEPT !.randomized_key = p]).ok
        /\ \A i \in 1..Len(sapling.outputs) :
              LET output == [sapling.outputs[i] EXCEPT !.zkproof = proof]
              IN  /\ ~accept_output(OutputVk, total,
                                    [output EXCEPT !.value_commitment = p]).ok
                  /\ ~accept_output(OutputVk, total,
                                    [output EXCEPT !.ephemeral_key = p]).ok

\* a run rejected at a spend whose key is of small order while its
\* signature and its proof verify
C4_Witness ==
    /\ apc = "done" /\ result = "Err"
    /\ Len(log) >= 1 /\ log[Len(log)][1] = "spend"
    /\ LET spend == sapling.spends[log[Len(log)][2]]
           rk == spend.randomized_key
           vc == spend.value_commitment
       IN  /\ rk \in SmallOrderPoints
           /\ vc < JubjubOrder /\ vc \notin SmallOrderPoints
           /\ spend.anchor.readable
           /\ PublicKeyVerify([point |-> rk], <<rk, sighash>>, spend.spend_auth_sig,
                              "SpendingKeyGenerator")
           /\ IsVerificationOk(verify_proof(SpendVk, read_proof(spend.zkproof).val,
                  SpendPublicInput([point |-> rk], vc, spend.anchor.val,
                                   PackedNullifier[spend.nullifier])))

\* the balancing values the property is tried on
ValueRange ==
    ValueSamples \cup (I64Min..(I64Min + JubjubOrder)) \cup ((-JubjubOrder)..JubjubOrder)
        \cup ((I64Max - JubjubOrder)..I64Max)

----------------------------------------------------------------------------
(* Natural numbers of any size as little-endian sequences of 16-bit limbs, *)
(* used to state the multipacking claims.                                  *)

LimbAt(a, i) == IF i <= Len(a) THEN a[i] ELSE 0

MaxOf(m, n) == IF m >= n THEN m ELSE n

EqBig(a, b) == \A i \in 1..MaxOf(Len(a), Len(b)) : LimbAt(a, i) = LimbAt(b, i)

RECURSIVE BigAddFrom(_, _, _, _)
BigAddFrom(a, b, i, carry) ==
    IF i > MaxOf(Len(a), Len(b))
    THEN (IF carry = 0 THEN <<>> ELSE <<carry>>)
    ELSE LET s == LimbAt(a, i) + LimbAt(b, i) + carry
         IN  <<s % LimbBase>> \o BigAddFrom(a, b, i + 1, s \div LimbBase)

BigAdd(a, b) == BigAddFrom(a, b, 1, 0)

\* a * m for a small multiplier m (m <= 2^15)
RECURSIVE BigMulSmallFrom(_, _, _, _)
BigMulSmallFrom(a, m, i, carry) ==
    IF i > Len(a)
    THEN (IF carry = 0 THEN <<>> ELSE <<carry>>)
    ELSE LET p == a[i] * m + carry
         IN  <<p % LimbBase>> \o BigMulSmallFrom(a, m, i + 1, p \div LimbBase)

\* a * 2^n
BigShl(a, n) ==
    [i \in 1..(n \div 16) |-> 0] \o BigMulSmallFrom(a, 2^(n % 16), 1, 0)

\* sum over i of scalars[i] * 2^((i-1) * CAPACITY), i counted from 1
RECURSIVE Reconstruct(_, _)
Reconstruct(scalars, i) ==
    IF i > Len(scalars) THEN <<>>
    ELSE BigAdd(BigShl(scalars[i], (i - 1) * CAPACITY), Reconstruct(scalars, i + 1))

\* The integer sum over k of bytes[k] * 256^(k-1): the integer whose
\* little-endian bit expansion lists each byte's bits from bit 0 to bit 7.
BytesAsInteger(bytes) ==
    [j \in 1..((Len(bytes) + 1) \div 2) |->
        bytes[2 * j - 1] + 256 * (IF 2 * j <= Len(bytes) THEN bytes[2 * j] ELSE 0)]

CeilDiv(m, n) == (m + n - 1) \div n

\* C6: a 32-byte nullifier packs into exactly 2 scalars (the assertion of
\* accept_spend, lib.rs:91, cannot fail).
C6_NullifierPacksIntoTwo ==
    (ppc = "packed" /\ Len(pBytes) = NullifierLen) => Len(pScalars) = 2

C6_Witness ==
    /\ ppc = "packed"
    /\ Len(pBytes) = NullifierLen
    /\ Len(pScalars) = 2
    /\ pScalars[1] # FrZero
    /\ pScalars[2] # FrZero

\* C7: compute_multipacking(bytes_to_bits_le(b)) has ceil(8*len(b)/CAPACITY)
\* scalars, and the sum of scalars[i] * 2^(i*CAPACITY) is the integer whose
\* little-endian bit expansion is b's bits, bit 0 of byte 0 first.
C7_MultipackingCorrect ==
    ppc = "packed" =>
        /\ Len(pScalars) = CeilDiv(8 * Len(pBytes), CAPACITY)
        /\ EqBig(Reconstruct(pScalars, 1), BytesAsInteger(pBytes))

C7_Witness ==
    /\ ppc = "packed"
    /\ Len(pScalars) = 3
    /\ \A c \in 1..3 : pScalars[c] # FrZero
    /\ \E i, j \in 1..Len(pBytes) : pBytes[i] # pBytes[j]

CodecNext ==
    \/ ReadG1Affine
    \/ ReadG2Affine
    \/ ReadCompressedG1Affine
    \/ ReadCompressedG2Affine

SpecCodec == CodecInit /\ [][CodecNext]_vars

----------------------------------------------------------------------------
(* The decoders' claims. *)

Decoders == {"g1u", "g2u", "g1c", "g2c"}
IsCompressedDecoder(d) == d \in {"g1c", "g2c"}
DecoderLen(d) ==
    IF d = "g1c" THEN FqBytes ELSE IF d = "g2u" THEN G2Len ELSE G1Len
DecoderInput(d) == Prefix(cInput, DecoderLen(d))
Failed(r) == ~r.unchecked.ok /\ ~r.checked.ok

InfinityEncoding(d) ==
    /\ cOut[d].done
    /\ IsCompressedDecoder(d) = FlagSet(cInput[1], 7)
    /\ FlagSet(cInput[1], 6)

AcceptedAsIdentity(r) ==
    /\ r.unchecked.ok /\ r.unchecked.val = AffineZero
    /\ r.checked.ok /\ r.checked.val = AffineZero

\* C9 as claimed: with the right compressed flag and the infinity flag set,
\* the input is accepted as the identity once its bytes are zero after the
\* three most significant bits of byte 0 are masked.
C9_InfinityMaskThree ==
    \A d \in Decoders :
        (InfinityEncoding(d) /\ AllZero(MaskFirst(DecoderInput(d), 5)))
            => AcceptedAsIdentity(cOut[d])

\* C9, amended: with the right compressed flag and the infinity flag set, the
\* input is accepted as the identity once its bytes are zero after the two
\* most significant bits of byte 0 are masked (the sort flag has to be clear
\* as well); with any other byte or bit set it is rejected.
C9_InfinityMaskTwo ==
    \A d \in Decoders :
        InfinityEncoding(d) =>
            IF AllZero(MaskFirst(DecoderInput(d), 6))
            THEN AcceptedAsIdentity(cOut[d])
            ELSE Failed(cOut[d])

C9_Witness ==
    /\ cpc = "done"
    /\ InfinityEncoding("g1c") /\ InfinityEncoding("g2c")
    /\ AllZero(MaskFirst(cInput, 6))
    /\ AcceptedAsIdentity(cOut["g1c"])
    /\ AcceptedAsIdentity(cOut["g2c"])

\* the payload of a compressed encoding: the x coordinate, when every
\* coordinate of it is below the modulus
CompressedX(d) ==
    LET copy == MaskFirst(DecoderInput(d), 5)
        coord(k) == copy[4 * k - 3] * (2^24) + copy[4 * k - 2] * (2^16)
                        + copy[4 * k - 1] * 256 + copy[4 * k]
    IN  IF d = "g1c" THEN <<coord(1), 0>> ELSE <<coord(2), coord(1)>>

PayloadInRange(d) ==
    LET x == CompressedX(d) IN x[1] < FqModulus /\ x[2] < FqModulus

DecoderCurve(d) == IF d \in {"g1c", "g1u"} THEN "G1" ELSE "G2"

Unchecked(d, data) ==
    IF d = "g1c" THEN G1Compressed_into_affine_unchecked(data)
    ELSE G2Compressed_into_affine_unchecked(data)

\* the input with the sort flag (bit 5 of byte 0) flipped
FlipSort(data) ==
    [data EXCEPT ![1] = IF FlagSet(@, 5) THEN @ - 32 ELSE @ + 32]

\* C10: for a compressed encoding of x (compressed flag set, infinity flag
\* clear): when x^3 + b has no square root the decoder fails; otherwise it
\* yields (x, y) with y the greater of the two roots when the sort flag is set
\* and the lesser when it is clear, and the encoding that differs in the sort
\* flag alone yields (x, -y).
C10_SortFlagDeterminism ==
    \A d \in {"g1c", "g2c"} :
        (/\ cOut[d].done
         /\ FlagSet(cInput[1], 7) /\ ~FlagSet(cInput[1], 6)
         /\ PayloadInRange(d))
        => LET x == CompressedX(d)
               g == DecoderCurve(d)
               rhs == FAdd(FMul(FMul(x, x), x), COEFF_B(g))
               roots == {y \in BaseField(g) : FMul(y, y) = rhs}
               r == cOut[d].unchecked
               other == Unchecked(d, FlipSort(DecoderInput(d)))
           IN  IF roots = {} THEN Failed(cOut[d])
               ELSE /\ r.ok /\ ~r.val.infinity
                    /\ r.val.x = x
                    /\ r.val.y \in roots
                    /\ \A z \in roots :
                          IF FlagSet(cInput[1], 5) THEN ~FLess(r.val.y, z)
                          ELSE ~FLess(z, r.val.y)
                    /\ other.ok /\ other.val.x = x /\ other.val.y = FNeg(r.val.y)

C10_Witness ==
    /\ cpc = "done"
    /\ FlagSet(cInput[1], 7) /\ ~FlagSet(cInput[1], 6) /\ FlagSet(cInput[1], 5)
    /\ PayloadInRange("g1c") /\ PayloadInRange("g2c")
    /\ cOut["g1c"].unchecked.ok /\ cOut["g2c"].unchecked.ok
    /\ FLess(FNeg(cOut["g1c"].unchecked.val.y), cOut["g1c"].unchecked.val.y)
    /\ FLess(FNeg(cOut["g2c"].unchecked.val.y), cOut["g2c"].unchecked.val.y)
    /\ ~sqrtGreater

\* the k-th payload of a decoder's input, its flag bits masked, read as a
\* big-endian integer
RECURSIVE BigEndian(_, _, _)
BigEndian(copy, from, n) ==
    IF n = 0 THEN 0
    ELSE BigEndian(copy, from, n - 1) * 256 + copy[from + n - 1]

PayloadInteger(d, k) ==
    BigEndian(MaskFirst(DecoderInput(d), 5), (k - 1) * FqBytes + 1, FqBytes)

PayloadCount(d) == DecoderLen(d) \div FqBytes

SomePayloadOutOfRange(d) ==
    \E k \in 1..PayloadCount(d) : PayloadInteger(d, k) >= FqModulus

C11_OutOfRangeCheckedFails ==
    \A d \in Decoders :
        (cOut[d].done /\ SomePayloadOutOfRange(d)) => ~cOut[d].checked.ok

----------------------------------------------------------------------------
(* The accumulator after a rejected spend or output.                       *)

\* the description the last recorded step was given
LastItem ==
    LET last == log[Len(log)]
    IN  IF last[1] = "spend" THEN sapling.spends[last[2]]
        ELSE sapling.outputs[last[2]]

\* the accumulator as the steps before the last recorded one left it
BeforeLast ==
    LET last == log[Len(log)]
    IN  IF last[1] = "spend" THEN Balance(last[2] - 1, 0)
        ELSE Balance(Len(sapling.spends), last[2] - 1)

RejectedAtItem ==
    /\ apc = "done" /\ result = "Err"
    /\ log # <<>> /\ log[Len(log)][1] \in {"spend", "output"}

\* the two ways a value commitment is refused: it does not decode, or it
\* decodes to a point of small order
ValueCommitmentRefused(buf) ==
    \/ ~read_point(buf).some
    \/ buf \in SmallOrderPoints

\* C12: a step of accept_spend or accept_output that returns Err leaves the
\* accumulator as it was when the value commitment of its description does
\* not decode or is of small order; when it returns Err at a later check
\* the accumulator holds the value it had plus the value commitment (spend)
\* or minus it (output), and this differs from the value it had.
C12_AccumulatorOnFailure ==
    [][ (RejectedAtItem' /\ apc # "done") =>
          LET vc == LastItem'.value_commitment
          IN  IF ValueCommitmentRefused(vc) THEN total' = total
              ELSE /\ total' = IF apc = "spends" THEN PointAdd(total, vc)
                                ELSE PointSub(total, vc)
                   /\ total' # total ]_vars

\* the same on the states: after a rejected step the accumulator is the
\* balance of the steps before it, moved by the value commitment of the
\* rejected description unless that was refused
C12_AccumulatorAfterFailure ==
    RejectedAtItem =>
        LET vc == LastItem.value_commitment
        IN  total = IF ValueCommitmentRefused(vc) THEN BeforeLast
                    ELSE IF log[Len(log)][1] = "spend" THEN PointAdd(BeforeLast, vc)
                    ELSE PointSub(BeforeLast, vc)

\* an output rejected for its proof after an accepted spend, the
\* accumulator holding the spend's commitment minus the output's
C12_Witness ==
    /\ RejectedAtItem
    /\ log = << <<"spend", 1>>, <<"output", 1>> >>
    /\ ~ValueCommitmentRefused(LastItem.value_commitment)
    /\ read_proof(LastItem.zkproof).ok
    /\ total = PointSub(sapling.spends[1].value_commitment,
                        LastItem.value_commitment)
    /\ total # sapling.spends[1].value_commitment

====
